---- MODULE Spec2Model ----
(***************************************************************************)
(* Model of employee-app/app.py: the Flask handlers index, hire, edit and   *)
(* fire over the single table "employees", together with the behaviour of   *)
(* the SQLAlchemy session and of the PostgreSQL table the handlers rely on. *)
(*                                                                          *)
(* Text values whose length or characters matter (names, emails, salary     *)
(* text, search queries) are sequences of one-character strings.            *)
(***************************************************************************)
EXTENDS Integers, Sequences, FiniteSets, TLC

VARIABLES store, nextId, session, resp, everIds, fired

vars == <<store, nextId, session, resp, everIds, fired>>

(***************************************************************************)
(* Bounds of the model.                                                     *)
(***************************************************************************)
\* Largest value the id sequence hands out in the model.
MaxId == 2

(***************************************************************************)
(* Schema: class Department and class Employee.                             *)
(***************************************************************************)
\* Member names of the Department enumeration (Department[...] looks up by name).
Department == {"HR", "ENGINEERING", "SALES", "MARKETING", "FINANCE", "IT"}

\* db.String(50) of first_name and last_name, db.String(120) of email.
NameWidth == 50
EmailWidth == 120

\* The columns of Employee other than the primary key.
Columns == {"first_name", "last_name", "email", "department", "salary", "hire_date"}

(***************************************************************************)
(* Characters and text.                                                     *)
(***************************************************************************)
AsciiDigits == {"0", "1", "2", "3", "4", "5", "6", "7", "8", "9"}

\* "^2" stands for U+00B2 SUPERSCRIPT TWO: str.isdigit() accepts it, int() does not.
SuperscriptDigits == {"^2"}

DigitValue(c) ==
    CASE c = "0" -> 0 [] c = "1" -> 1 [] c = "2" -> 2 [] c = "3" -> 3
      [] c = "4" -> 4 [] c = "5" -> 5 [] c = "6" -> 6 [] c = "7" -> 7
      [] c = "8" -> 8 [] c = "9" -> 9

\* Case folding of ILIKE on the letters the model uses.
Lower(c) ==
    CASE c = "A" -> "a" [] c = "B" -> "b" [] c = "X" -> "x"
      [] OTHER -> c

LowerText(s) == [i \in 1..Len(s) |-> Lower(s[i])]

\* str.isdigit(): non-empty and every character is a digit character.
IsDigit(s) == Len(s) > 0 /\ \A i \in 1..Len(s) : s[i] \in AsciiDigits \cup SuperscriptDigits

RECURSIVE DecimalValue(_)
DecimalValue(s) ==
    IF Len(s) = 0 THEN 0
    ELSE 10 * DecimalValue(SubSeq(s, 1, Len(s) - 1)) + DigitValue(s[Len(s)])

IsDecimal(s) == Len(s) > 0 /\ \A i \in 1..Len(s) : s[i] \in AsciiDigits

\* The parsers return the set holding the parsed value, empty where the Python
\* call raises.

\* int(query): raises ValueError on a character that is no decimal digit.
ParseInt(s) == IF IsDecimal(s) THEN {DecimalValue(s)} ELSE {}

\* float(text) on signed decimal integer literals and on text without digits
\* (the salary inputs of the model); raises ValueError on the latter.
ParseFloat(s) ==
    IF IsDecimal(s) THEN {DecimalValue(s)}
    ELSE IF Len(s) > 1 /\ s[1] = "-" /\ IsDecimal(Tail(s)) THEN {0 - DecimalValue(Tail(s))}
    ELSE IF Len(s) > 1 /\ s[1] = "+" /\ IsDecimal(Tail(s)) THEN {DecimalValue(Tail(s))}
    ELSE {}

\* datetime.strptime(text, '%Y-%m-%d'): a datetime <<y, m, d, h, mi, s>>;
\* raises ValueError on any other layout.  Unpadded month and day are accepted.
ParseDate(t) ==
    CASE t = "2024-01-15" -> {<<2024, 1, 15, 0, 0, 0>>}
      [] t = "2024-1-15"  -> {<<2024, 1, 15, 0, 0, 0>>}
      [] t = "2023-06-01" -> {<<2023, 6, 1, 0, 0, 0>>}
      [] OTHER -> {}

\* What a Date column keeps of a datetime.
ToDate(dt) == SubSeq(dt, 1, 3)

\* A lookup that also accepts member values (a variant on which C3
\* fails).
ParseDepartmentByValueToo(code) ==
    IF code \in Department \cup {"Engineering", "Sales", "Marketing", "Finance"} THEN {code} ELSE {}

\* Department[code]: raises KeyError unless code is a member name.
ParseDepartment(code) == IF code \in Department THEN {code} ELSE {}

TheOne(S) == CHOOSE x \in S : TRUE

Min(S) == CHOOSE x \in S : \A y \in S : x <= y

(***************************************************************************)
(* The table "employees" as PostgreSQL keeps it.                            *)
(***************************************************************************)
\* The value a column keeps of the value the ORM sends for it.
Stored(c, v) == IF c = "hire_date" THEN ToDate(v) ELSE v

\* VARCHAR(n) rejects longer text ("value too long for type character varying").
TooLong(row, cols) ==
    \/ "first_name" \in cols /\ Len(row.first_name) > NameWidth
    \/ "last_name" \in cols /\ Len(row.last_name) > NameWidth
    \/ "email" \in cols /\ Len(row.email) > EmailWidth

\* A table without the unique index on email (a variant on which C2 and C9
\* fail).
EmailTakenNoCheck(st, i, email) == FALSE

\* unique=True on email: another row already holds this email.
EmailTaken(st, i, email) == \E j \in DOMAIN st : j /= i /\ st[j].email = email

\* An id generator that hands out the lowest id no row holds now (a variant
\* on which C1 fails).
NextvalReusesFreed(st, n) == Min((1..(MaxId + 1)) \ DOMAIN st)

\* The id column's sequence, whose counter stands at n: the value it hands
\* out.  Values are never handed out twice, whatever was deleted since.
Nextval(st, n) == n

\* INSERT of one row under id i.  err is "none" or the exception raised.
InsertRow(st, i, row) ==
    IF TooLong(row, Columns) THEN [err |-> "DataError", store |-> st]
    ELSE IF EmailTaken(st, i, row.email) THEN [err |-> "IntegrityError", store |-> st]
    ELSE [err |-> "none",
          store |-> [j \in DOMAIN st \cup {i} |->
                        IF j = i THEN [c \in Columns |-> Stored(c, row[c])] ELSE st[j]]]

(***************************************************************************)
(* The ORM session: objects loaded in a request, as [loaded, cur, deleted]: *)
(* the column values as loaded, the attribute values now, and whether       *)
(* session.delete() was called on the object.                               *)
(***************************************************************************)
NoObjects == <<>>

\* The columns the unit of work puts in the UPDATE: those whose attribute
\* differs from the loaded value.  A datetime assigned to hire_date never
\* equals the loaded date, so hire_date is always among them after an edit.
Changed(obj) == {c \in Columns : obj.cur[c] /= obj.loaded[c]}

\* An UPDATE that writes the whole object back whether or not the row is
\* still there (a variant on which C5 fails).
UpdateUpserts(st, i, obj) ==
    IF Changed(obj) = {} THEN [err |-> "none", store |-> st]
    ELSE IF TooLong(obj.cur, Changed(obj)) THEN [err |-> "DataError", store |-> st]
    ELSE IF "email" \in Changed(obj) /\ EmailTaken(st, i, obj.cur.email)
         THEN [err |-> "IntegrityError", store |-> st]
    ELSE [err |-> "none",
          store |-> [j \in DOMAIN st \cup {i} |->
                        IF j = i THEN [c \in Columns |-> Stored(c, obj.cur[c])] ELSE st[j]]]

\* UPDATE employees SET <changed columns> WHERE id = i, on the row as it is
\* now.  No row matched raises StaleDataError.
UpdateRow(st, i, obj) ==
    IF Changed(obj) = {} THEN [err |-> "none", store |-> st]
    ELSE IF i \notin DOMAIN st THEN [err |-> "StaleDataError", store |-> st]
    ELSE IF TooLong(obj.cur, Changed(obj)) THEN [err |-> "DataError", store |-> st]
    ELSE IF "email" \in Changed(obj) /\ EmailTaken(st, i, obj.cur.email)
         THEN [err |-> "IntegrityError", store |-> st]
    ELSE [err |-> "none",
          store |-> [st EXCEPT ![i] =
                        [c \in Columns |->
                            IF c \in Changed(obj) THEN Stored(c, obj.cur[c]) ELSE st[i][c]]]]

\* DELETE FROM employees WHERE id = i.  No row matched is only a warning.
DeleteRow(st, i) == [j \in DOMAIN st \ {i} |-> st[j]]

\* The UPDATEs of the dirty objects of a session, in primary-key order.
RECURSIVE FlushUpdates(_, _, _)
FlushUpdates(st, objs, ids) ==
    IF ids = {} THEN [err |-> "none", store |-> st]
    ELSE LET i == Min(ids)
             r == IF objs[i].deleted THEN [err |-> "none", store |-> st]
                  ELSE UpdateRow(st, i, objs[i])
         IN IF r.err /= "none" THEN r ELSE FlushUpdates(r.store, objs, ids \ {i})

RECURSIVE FlushDeletes(_, _, _)
FlushDeletes(st, objs, ids) ==
    IF ids = {} THEN st
    ELSE LET i == Min(ids)
         IN FlushDeletes(IF objs[i].deleted THEN DeleteRow(st, i) ELSE st, objs, ids \ {i})

\* db.session.commit(): flush (UPDATEs, then the INSERT of the pending rows,
\* then DELETEs) and COMMIT, as one transaction.  pending holds at most one
\* row, inserted under id nid.  On an error nothing of the transaction is kept.
Commit(st, objs, pending, nid) ==
    LET u == FlushUpdates(st, objs, DOMAIN objs)
        n == IF u.err /= "none" \/ pending = {} THEN u
             ELSE InsertRow(u.store, nid, TheOne(pending))
    IN IF n.err /= "none" THEN [err |-> n.err, store |-> st]
       ELSE [err |-> "none", store |-> FlushDeletes(n.store, objs, DOMAIN objs)]

\* A session that outlives the request with what it holds (a variant on
\* which C8 fails).
TeardownKeepsSession(objs) == objs

\* Flask-SQLAlchemy removes the session when the request's application context
\* ends: what the session still holds is discarded, never flushed.
Teardown(objs) == NoObjects

\* Employee.query.get_or_404(id): the object of the session's identity map if
\* it is there, else the row as loaded now.
Load(st, objs, i) ==
    IF i \in DOMAIN objs THEN objs[i]
    ELSE [loaded |-> st[i], cur |-> st[i], deleted |-> FALSE]

Put(objs, i, obj) == [j \in DOMAIN objs \cup {i} |-> IF j = i THEN obj ELSE objs[j]]

\* A record as the templates get it.
Row(st, i) == [id |-> i, rec |-> st[i]]

(***************************************************************************)
(* Requests.  A worker serves one request at a time; session[w] is the      *)
(* session of the request worker w is serving.  edit and fire read the row  *)
(* (get_or_404) and write it (commit) in two steps, between which other     *)
(* requests may be served.  resp is the last response sent.                 *)
(***************************************************************************)
Idle == [pc |-> "idle", id |-> 0, objs |-> NoObjects]

\* A response: the worker that sent it, the route, the outcome ("ok" for the
\* redirect after a write, "form", "list", "not_found", or the exception caught),
\* the id concerned, the records handed to the template, the search query.
Response(w, route, kind, i, shown) ==
    [worker |-> w, route |-> route, kind |-> kind, id |-> i, shown |-> shown, query |-> <<>>]

\* The request ends: the worker is free and its session is torn down.
Finish(w, objs) == [session EXCEPT ![w] = [pc |-> "idle", id |-> 0, objs |-> Teardown(objs)]]

\* GET /hire: the empty form.
HireGet(w) ==
    /\ session[w].pc = "idle"
    /\ resp' = Response(w, "hire", "form", 0, <<>>)
    /\ session' = Finish(w, session[w].objs)
    /\ UNCHANGED <<store, nextId, everIds, fired>>

\* The Employee(...) constructor call of hire: the field conversions in the
\* order the arguments are evaluated.  Empty where one of them raises.
NewEmployee(f) ==
    IF ParseDepartment(f.department) = {} \/ ParseFloat(f.salary) = {}
       \/ ParseDate(f.hire_date) = {}
    THEN {}
    ELSE {[first_name |-> f.first_name, last_name |-> f.last_name, email |-> f.email,
           department |-> TheOne(ParseDepartment(f.department)),
           salary |-> TheOne(ParseFloat(f.salary)),
           hire_date |-> TheOne(ParseDate(f.hire_date))]}

\* The exception the field conversions of form f raise, "none" if none does.
ConversionError(f) ==
    IF ParseDepartment(f.department) = {} THEN "KeyError"
    ELSE IF ParseFloat(f.salary) = {} THEN "ValueError(float)"
    ELSE IF ParseDate(f.hire_date) = {} THEN "ValueError(strptime)"
    ELSE "none"

\* POST /hire with form f.
HirePost(w, f) ==
    /\ session[w].pc = "idle"
    /\ UNCHANGED fired
    /\ IF NewEmployee(f) = {}
       THEN \* KeyError or ValueError: rollback, form shown again with the error
            /\ resp' = Response(w, "hire", ConversionError(f), 0, <<>>)
            /\ session' = Finish(w, NoObjects)
            /\ UNCHANGED <<store, nextId, everIds>>
       ELSE /\ nextId <= MaxId
            /\ LET i == Nextval(store, nextId)
                   r == Commit(store, session[w].objs, NewEmployee(f), i)
               IN IF r.err = "none"
                  THEN /\ resp' = Response(w, "hire", "ok", i, <<>>)
                       /\ store' = r.store
                       /\ nextId' = nextId + 1
                       /\ everIds' = everIds \cup {i}
                       /\ session' = Finish(w, NoObjects)
                  ELSE \* the except branch: db.session.rollback()
                       /\ resp' = Response(w, "hire", r.err, 0, <<>>)
                       /\ store' = store
                       /\ nextId' \in (IF r.err = "DataError" THEN {nextId, nextId + 1}
                                       ELSE {nextId + 1})
                       /\ everIds' = everIds
                       /\ session' = Finish(w, NoObjects)

\* get_or_404 finds the id: in the session's identity map or in the table.
Found(st, objs, i) == i \in DOMAIN st \cup DOMAIN objs

\* edit once get_or_404 has returned the record: the form on GET, on to the
\* try block on POST.
EditFound(w, i, method) ==
    LET obj == Load(store, session[w].objs, i)
    IN IF method = "GET"
       THEN /\ resp' = Response(w, "edit", "form", i, <<[id |-> i, rec |-> obj.cur]>>)
            /\ session' = Finish(w, Put(session[w].objs, i, obj))
       ELSE /\ resp' = resp
            /\ session' = [session EXCEPT ![w] =
                              [pc |-> "edit", id |-> i,
                               objs |-> Put(session[w].objs, i, obj)]]

\* An edit that shows a blank form for a missing id instead of 404 (a variant
\* on which C6 fails).
EditLoadBlankFormWhenMissing(w, i, method) ==
    /\ session[w].pc = "idle"
    /\ UNCHANGED <<store, nextId, everIds, fired>>
    /\ IF ~Found(store, session[w].objs, i)
       THEN /\ resp' = Response(w, "edit", "form", i, <<>>)
            /\ session' = Finish(w, session[w].objs)
       ELSE EditFound(w, i, method)

\* edit, up to the method test: get_or_404(id), and the form on GET.
EditLoad(w, i, method) ==
    /\ session[w].pc = "idle"
    /\ UNCHANGED <<store, nextId, everIds, fired>>
    /\ IF ~Found(store, session[w].objs, i)
       THEN /\ resp' = Response(w, "edit", "not_found", i, <<>>)
            /\ session' = Finish(w, session[w].objs)
       ELSE EditFound(w, i, method)

\* The assignments of edit's try block, in order, up to the first that raises.
Assign(cur, f) ==
    LET c3 == [cur EXCEPT !.first_name = f.first_name, !.last_name = f.last_name,
                          !.email = f.email]
    IN IF ParseDepartment(f.department) = {} THEN [err |-> "KeyError", cur |-> c3]
       ELSE LET c4 == [c3 EXCEPT !.department = TheOne(ParseDepartment(f.department))]
            IN IF ParseFloat(f.salary) = {} THEN [err |-> "ValueError(float)", cur |-> c4]
               ELSE LET c5 == [c4 EXCEPT !.salary = TheOne(ParseFloat(f.salary))]
                    IN IF ParseDate(f.hire_date) = {}
                       THEN [err |-> "ValueError(strptime)", cur |-> c5]
                       ELSE [err |-> "none",
                             cur |-> [c5 EXCEPT !.hire_date = TheOne(ParseDate(f.hire_date))]]

\* POST /edit/<id> with form f, after get_or_404: the try block and the end
\* of the request.
EditPost(w, f) ==
    /\ session[w].pc = "edit"
    /\ UNCHANGED <<nextId, everIds, fired>>
    /\ LET i == session[w].id
           obj == session[w].objs[i]
           a == Assign(obj.cur, f)
           objs == Put(session[w].objs, i, [obj EXCEPT !.cur = a.cur])
       IN IF a.err /= "none"
          THEN \* except branch: no rollback; the form shows the object as assigned so far
               /\ store' = store
               /\ resp' = Response(w, "edit", a.err, i, <<[id |-> i, rec |-> a.cur]>>)
               /\ session' = Finish(w, objs)
          ELSE LET r == Commit(store, objs, {}, 0)
               IN IF r.err = "none"
                  THEN /\ store' = r.store
                       /\ resp' = Response(w, "edit", "ok", i, <<>>)
                       /\ session' = Finish(w, NoObjects)
                  ELSE /\ store' = store
                       /\ resp' = Response(w, "edit", r.err, i, <<>>)
                       /\ session' = Finish(w, objs)

\* fire, up to the try block: get_or_404(id).
FireLoad(w, i) ==
    /\ session[w].pc = "idle"
    /\ UNCHANGED <<store, nextId, everIds, fired>>
    /\ IF ~Found(store, session[w].objs, i)
       THEN /\ resp' = Response(w, "fire", "not_found", i, <<>>)
            /\ session' = Finish(w, session[w].objs)
       ELSE /\ resp' = resp
            /\ session' = [session EXCEPT ![w] =
                              [pc |-> "fire", id |-> i,
                               objs |-> Put(session[w].objs, i,
                                            Load(store, session[w].objs, i))]]

\* The try block of fire: session.delete(employee), commit.
FireCommit(w) ==
    /\ session[w].pc = "fire"
    /\ UNCHANGED <<nextId, everIds>>
    /\ LET i == session[w].id
           objs == Put(session[w].objs, i, [session[w].objs[i] EXCEPT !.deleted = TRUE])
           r == Commit(store, objs, {}, 0)
       IN IF r.err = "none"
          THEN /\ store' = r.store
               /\ fired' = fired \cup {i}
               /\ resp' = Response(w, "fire", "ok", i, <<>>)
               /\ session' = Finish(w, NoObjects)
          ELSE /\ store' = store
               /\ fired' = fired
               /\ resp' = Response(w, "fire", r.err, i, <<>>)
               /\ session' = Finish(w, objs)

(***************************************************************************)
(* Listing and search.                                                      *)
(***************************************************************************)
\* PostgreSQL LIKE on text already case-folded: % matches any run of
\* characters, _ any one character, a backslash takes the next one literally.
RECURSIVE LikeMatch(_, _)
LikeMatch(pat, s) ==
    IF Len(pat) = 0 THEN Len(s) = 0
    ELSE IF pat[1] = "%"
         THEN \E k \in 0..Len(s) : LikeMatch(Tail(pat), SubSeq(s, k + 1, Len(s)))
    ELSE IF pat[1] = "_" THEN Len(s) > 0 /\ LikeMatch(Tail(pat), Tail(s))
    ELSE IF pat[1] = "\\" /\ Len(pat) > 1
         THEN Len(s) > 0 /\ s[1] = pat[2] /\ LikeMatch(SubSeq(pat, 3, Len(pat)), Tail(s))
    ELSE Len(s) > 0 /\ s[1] = pat[1] /\ LikeMatch(Tail(pat), Tail(s))

\* column.ilike(pattern)
ILike(s, pat) == LikeMatch(LowerText(pat), LowerText(s))

Max(S) == CHOOSE x \in S : \A y \in S : x >= y

\* order_by(Employee.id.desc())
RECURSIVE DescById(_, _)
DescById(st, ids) ==
    IF ids = {} THEN <<>>
    ELSE <<Row(st, Max(ids))>> \o DescById(st, ids \ {Max(ids)})

\* The orders in which a query without ORDER BY may return the rows S.
Orders(S) ==
    {sq \in [1..Cardinality(S) -> S] : \A a, b \in 1..Cardinality(S) : a /= b => sq[a] /= sq[b]}

\* filter_by(id=n)
ById(st, n) == {Row(st, i) : i \in {j \in DOMAIN st : j = n}}

\* filter(Employee.email.ilike(f"%{query}%"))
ByEmail(st, q) == {Row(st, i) : i \in {j \in DOMAIN st : ILike(st[j].email, <<"%">> \o q \o <<"%">>)}}

\* GET / with query string q (the empty text when there is none).
Index(w, q) ==
    /\ session[w].pc = "idle"
    /\ UNCHANGED <<store, nextId, everIds, fired>>
    /\ session' = Finish(w, session[w].objs)
    /\ IF Len(q) = 0
       THEN resp' = [Response(w, "index", "list", 0, DescById(store, DOMAIN store)) EXCEPT !.query = q]
       ELSE IF IsDigit(q)
            THEN IF ParseInt(q) = {}
                 THEN \* int() raises ValueError, which index does not catch
                      resp' = [Response(w, "index", "server_error", 0, <<>>) EXCEPT !.query = q]
                 ELSE \E rows \in Orders(ById(store, TheOne(ParseInt(q)))) :
                        resp' = [Response(w, "index", "list", 0, rows) EXCEPT !.query = q]
            ELSE \E rows \in Orders(ByEmail(store, q)) :
                   resp' = [Response(w, "index", "list", 0, rows) EXCEPT !.query = q]

(***************************************************************************)
(* Inputs of the model.                                                     *)
(***************************************************************************)
Workers == {"w1", "w2"}

\* Query strings of the listing: none, an id, a letter, a superscript digit.
ServiceQueries == {<<>>, <<"1">>, <<"2">>, <<"a">>, <<"^2">>}

Ids == 1..MaxId

Ann == <<"A", "n", "n">>
Bob == <<"B", "o", "b">>
Lee == <<"L", "e", "e">>
LongName == [k \in 1..(NameWidth + 1) |-> "x"]

AnnMail == <<"a", "@", "x">>
BobMail == <<"b", "@", "x">>

BadDate == "15/01/2024"

\* Forms: every combination of two first names, two emails, a department
\* code that is a member name or a member value, and a salary text that is
\* positive, negative or no number; and forms with an over-long first name
\* or a date in another layout.
Forms ==
    [first_name : {Ann, Bob},
     last_name : {Lee},
     email : {AnnMail, BobMail},
     department : {"HR", "Engineering"},
     salary : {<<"5", "0">>, <<"-", "5">>, <<"a", "b", "c">>},
     hire_date : {"2024-01-15"}]
    \cup
    [first_name : {LongName, Bob},
     last_name : {Lee},
     email : {AnnMail, BobMail},
     department : {"HR"},
     salary : {<<"5", "0">>},
     hire_date : {"2024-01-15", BadDate}]

(***************************************************************************)
(* The service: concurrent hire, edit and fire requests.                    *)
(***************************************************************************)
Init ==
    /\ store = <<>>
    /\ nextId = 1
    /\ session = [w \in Workers |-> Idle]
    /\ resp = Response("none", "none", "none", 0, <<>>)
    /\ everIds = {}
    /\ fired = {}

\* The requests workers W can serve with forms F and search queries Q.
Requests(W, F, Q) ==
    \E w \in W :
        \/ HireGet(w)
        \/ \E f \in F : HirePost(w, f)
        \/ \E i \in Ids, m \in {"GET", "POST"} : EditLoad(w, i, m)
        \/ \E f \in F : EditPost(w, f)
        \/ \E i \in Ids : FireLoad(w, i)
        \/ FireCommit(w)
        \/ \E q \in Q : Index(w, q)

\* One request at a time, every kind of form input.
Next == Requests({"w1"}, Forms, ServiceQueries)

Spec == Init /\ [][Next]_vars

\* Two workers serving requests concurrently, with forms that pass the field
\* conversions and one that does not.
ConcurrentForms ==
    [first_name : {Ann, Bob},
     last_name : {Lee},
     email : {AnnMail, BobMail},
     department : {"HR"},
     salary : {<<"5", "0">>},
     hire_date : {"2024-01-15"}]
    \cup
    [first_name : {Bob},
     last_name : {Lee},
     email : {BobMail},
     department : {"Engineering"},
     salary : {<<"5", "0">>},
     hire_date : {"2024-01-15"}]

NextConcurrent == Requests(Workers, ConcurrentForms, ServiceQueries)

SpecConcurrent == Init /\ [][NextConcurrent]_vars

\* Search: one worker, records with emails that differ in case and in the
\* characters LIKE treats as wildcards, and every query up to MaxQueryLen
\* characters of QueryChars.
MaxQueryLen == 2

QueryChars == {"a", "B", "_", "1"}

Queries == UNION {[1..n -> QueryChars] : n \in 0..MaxQueryLen}

SearchForms ==
    [first_name : {Ann},
     last_name : {Lee},
     email : {<<"a", "_", "b">>, <<"a", "x", "b">>, <<"A", "b">>},
     department : {"IT"},
     salary : {<<"5", "0">>},
     hire_date : {"2024-1-15"}]

NextSearch ==
    \/ \E f \in SearchForms : HirePost("w1", f)
    \/ \E i \in Ids : FireLoad("w1", i)
    \/ FireCommit("w1")
    \/ \E q \in Queries : Index("w1", q)

SpecSearch == Init /\ [][NextSearch]_vars

(***************************************************************************)
(* Properties.  What a form submits, read independently of the handlers'    *)
(* conversions.                                                             *)
(***************************************************************************)
SalaryOf(text) ==
    CASE text = <<"5", "0">> -> {50}
      [] text = <<"-", "5">> -> {0 - 5}
      [] OTHER -> {}

DateOf(text) ==
    CASE text \in {"2024-01-15", "2024-1-15"} -> {<<2024, 1, 15>>}
      [] text = "2023-06-01" -> {<<2023, 6, 1>>}
      [] OTHER -> {}

\* The record a form asks for, when its salary and date are readable.
Submitted(f) ==
    [first_name |-> f.first_name, last_name |-> f.last_name, email |-> f.email,
     department |-> f.department, salary |-> TheOne(SalaryOf(f.salary)),
     hire_date |-> TheOne(DateOf(f.hire_date))]

StoredEmails == {store[i].email : i \in DOMAIN store}

\* Validity of a hire form as far as the field conversions go.
Converts(f) == f.department \in Department /\ SalaryOf(f.salary) /= {} /\ DateOf(f.hire_date) /= {}

\* The text fields fit their columns.
Fits(f) ==
    /\ Len(f.first_name) <= NameWidth
    /\ Len(f.last_name) <= NameWidth
    /\ Len(f.email) <= EmailWidth

\* The step added exactly the record form f asks for, under a never-used id.
HiredExactly(f) ==
    /\ resp'.kind = "ok"
    /\ \E i \in DOMAIN store' \ DOMAIN store :
          /\ DOMAIN store' = DOMAIN store \cup {i}
          /\ i \notin everIds
          /\ resp'.id = i
          /\ store'[i] = Submitted(f)
          /\ \A j \in DOMAIN store : store'[j] = store[j]

ErrorKinds ==
    {"KeyError", "ValueError(float)", "ValueError(strptime)", "IntegrityError",
     "DataError", "StaleDataError"}

\* C1 as stated: a hire POST whose department, salary and date convert and
\* whose email is not stored adds exactly one record, with the submitted
\* values and an id no record ever had.
C1_HireOfConvertibleFormSucceeds ==
    [][\A f \in Forms :
          (resp'.route = "hire" /\ Converts(f) /\ f.email \notin StoredEmails
             /\ HirePost(resp'.worker, f)) => HiredExactly(f)]_vars

\* C1, amended: a hire POST whose department, salary and date convert, whose
\* names and email fit their columns (50, 50 and 120 characters) and whose
\* email is not stored adds exactly one record, with the submitted values and
\* an id no record ever had, records fired earlier included.
C1_ValidHireAddsOneFreshRecord ==
    [][\A f \in Forms :
          (resp'.route = "hire" /\ Converts(f) /\ Fits(f) /\ f.email \notin StoredEmails
             /\ HirePost(resp'.worker, f)) => HiredExactly(f)]_vars

\* A hire succeeded after an earlier record was fired.
C1_Witness ==
    /\ resp.route = "hire" /\ resp.kind = "ok"
    /\ resp.id \in DOMAIN store
    /\ fired /= {}

\* C2: a hire POST whose email is already stored fails and leaves the store
\* as it was (same records, same count); the failure is the store's
\* uniqueness error whenever the other fields are valid.
C2_DuplicateEmailHireFails ==
    [][\A f \in Forms :
          (resp'.route = "hire" /\ f.email \in StoredEmails /\ HirePost(resp'.worker, f)) =>
              /\ store' = store
              /\ Cardinality(DOMAIN store') = Cardinality(DOMAIN store)
              /\ resp'.kind \in ErrorKinds
              /\ (Converts(f) /\ Fits(f)) => resp'.kind = "IntegrityError"]_vars

\* A hire was rejected for its email while a record is stored.
C2_Witness ==
    /\ resp.route = "hire" /\ resp.kind = "IntegrityError"
    /\ store /= <<>>

\* C3: a hire POST whose department code is no member name of Department
\* fails in the lookup (a validation error) and leaves the store as it was,
\* whatever the other fields are.
C3_UnknownDepartmentPersistsNothing ==
    [][\A f \in Forms :
          (resp'.route = "hire" /\ f.department \notin Department /\ HirePost(resp'.worker, f)) =>
              /\ store' = store
              /\ resp'.kind = "KeyError"]_vars

\* A hire was rejected for its department code.
C3_Witness == resp.route = "hire" /\ resp.kind = "KeyError"

\* C4: every stored record has a salary >= 0.
C4_SalaryNonNegative == \A i \in DOMAIN store : store[i].salary >= 0

ShownIds(r) == {r.shown[k].id : k \in 1..Len(r.shown)}

\* C5: once a fire of an id has succeeded the id is never stored again, no
\* listing or search shows it, and a fire request for it gets not-found and
\* leaves the store as it was.
C5_FiredIdStaysGone ==
    /\ [](\A i \in fired : i \notin DOMAIN store)
    /\ [][/\ \A q \in ServiceQueries :
               (resp'.route = "index" /\ Index(resp'.worker, q))
                   => ShownIds(resp') \cap fired = {}
          /\ \A w \in Workers, i \in fired :
               FireLoad(w, i) => (resp'.kind = "not_found" /\ store' = store
                                    /\ session'[w].pc = "idle")]_vars

\* A fire of an already fired id got not-found, with a later hire stored.
C5_Witness ==
    /\ resp.route = "fire" /\ resp.kind = "not_found"
    /\ resp.id \in fired
    /\ store /= <<>>

\* C6: an edit request, GET or POST, for an id with no stored record gets
\* not-found, never reaches the try block, and leaves the store as it was.
C6_EditOfMissingIdIsNotFound ==
    [][\A w \in Workers, i \in Ids, m \in {"GET", "POST"} :
          (i \notin DOMAIN store /\ EditLoad(w, i, m)) =>
              /\ resp' = Response(w, "edit", "not_found", i, <<>>)
              /\ session'[w].pc = "idle"
              /\ store' = store]_vars

\* An edit of a missing id got not-found while other records are stored.
C6_Witness ==
    /\ resp.route = "edit" /\ resp.kind = "not_found"
    /\ resp.id \notin DOMAIN store
    /\ store /= <<>>

Contains(s, q) == \E k \in 1..(Len(s) - Len(q) + 1) : SubSeq(s, k, k + Len(q) - 1) = q

\* C7: for a non-empty query, the rows shown are exactly the record whose id
\* is the number q when q is all digits, and otherwise exactly the records
\* whose email contains q, case-insensitively; never an error.
C7_SearchIsExactSubstringMatch ==
    [][\A q \in Queries :
          (resp'.route = "index" /\ Len(q) > 0 /\ Index(resp'.worker, q)) =>
              /\ resp'.kind = "list"
              /\ ShownIds(resp') =
                    IF \A k \in 1..Len(q) : q[k] \in AsciiDigits
                    THEN {i \in DOMAIN store : i = DecimalValue(q)}
                    ELSE {i \in DOMAIN store :
                            Contains(LowerText(store[i].email), LowerText(q))}]_vars

\* C8: a failed write leaves the store as it was; an edit POST that fails in
\* a conversion after the first assignments changes no stored record, and no
\* stored record ever changes except in a successful edit of its own id.
C8_FailedWriteChangesNothing ==
    [][/\ resp'.kind \in ErrorKinds => store' = store
       /\ \A f \in Forms :
            (resp'.route = "edit" /\ ConversionError(f) /= "none" /\ EditPost(resp'.worker, f))
                => store' = store
       /\ \A i \in DOMAIN store \cap DOMAIN store' :
            store'[i] /= store[i] =>
                \E w \in Workers :
                    /\ session[w].pc = "edit" /\ session[w].id = i
                    /\ resp' = Response(w, "edit", "ok", i, <<>>)
                    /\ \E f \in Forms : ConversionError(f) = "none" /\ EditPost(w, f)]_vars

\* An edit failed after assigning a first name the stored record does not have.
C8_Witness ==
    /\ resp.route = "edit"
    /\ resp.kind \in {"KeyError", "ValueError(float)", "ValueError(strptime)"}
    /\ resp.id \in DOMAIN store
    /\ resp.shown[1].rec.first_name /= store[resp.id].first_name

\* C9: no two stored records have the same email.
C9_EmailsUnique ==
    \A i, j \in DOMAIN store : i /= j => store[i].email /= store[j].email

\* An edit to the email of another record was rejected.
C9_Witness ==
    /\ resp.route = "edit" /\ resp.kind = "IntegrityError"
    /\ Cardinality(DOMAIN store) = 2

\* C10: a successful edit leaves its record equal to the complete field set it
\* submitted, or as the previous writer left it, never a mix; and leaves
\* every other record untouched.
C10_EditWritesWholeRecord ==
    [][\A w \in Workers, f \in ConcurrentForms :
          (resp' = Response(w, "edit", "ok", session[w].id, <<>>) /\ session[w].pc = "edit"
             /\ ConversionError(f) = "none" /\ EditPost(w, f)) =>
              /\ store'[session[w].id] \in {Submitted(f), store[session[w].id]}
              /\ \A j \in DOMAIN store \ {session[w].id} : store'[j] = store[j]]_vars

====
